---- MODULE Spec2Model ----
(***************************************************************************)
(* Model of the git repository reference resolver of WfExS-backend:        *)
(* guess_git_repo_params and find_git_repo_in_uri                          *)
(* (src/wfexs_backend/fetchers/git.py).                                    *)
(*                                                                         *)
(* Python strings are modelled as sequences of tokens.  A token is either  *)
(* a delimiter the code or urllib looks at (":", "//", "/", "@", "#", "=", *)
(* "&", ".git", "git+") or an opaque name.  Substring tests, splits,       *)
(* joins and prefix tests of the code are computed on these sequences.     *)
(* Optional[str] values use the reserved one-token string None, which is   *)
(* different from the empty string << >>.                                  *)
(***************************************************************************)
EXTENDS Integers, Sequences, FiniteSets, TLC

\* ------------------------------------------------------------------------
\* Bounds of the model
\* ------------------------------------------------------------------------

\* Largest number of path segments that follow owner/repo in an input URL.
MaxExtra == 3

\* The same for the inputs that are resolved twice against one remote.
MaxExtraTwice == 0

\* ------------------------------------------------------------------------
\* Python values
\* ------------------------------------------------------------------------

None == << "<None>" >>

\* Optional[RepoType]: the members the resolver assigns, and None.
NoRepoType == "None"
RepoType == {"Git", "GitHub", "GitLab", "BitBucket", "Raw", "Other"}

GITHUB_SCHEME == << "github" >>
GITHUB_NETLOC == << "github.com" >>
RAW_GITHUB_NETLOC == << "raw.githubusercontent.com" >>
GIT_PROTO == "git"
GIT_PROTO_PREFIX == "git+"
HEAD_LABEL == << "HEAD" >>
REFS_HEADS_PREFIX == "refs/heads/"
REFS_TAGS_PREFIX == "refs/tags/"

\* GitFetcher.GetSchemeHandlers(): git, git+https, git+http.
GetSchemeHandlers ==
    { << GIT_PROTO >>, << GIT_PROTO_PREFIX, "https" >>, << GIT_PROTO_PREFIX, "http" >> }

\* ------------------------------------------------------------------------
\* String operations (str.find, in, split, join, startswith, slicing)
\* ------------------------------------------------------------------------

\* Position of the first token t of s, 0 when there is none.
IndexOf(s, t) ==
    IF \E i \in 1..Len(s) : s[i] = t
    THEN CHOOSE i \in 1..Len(s) : s[i] = t /\ \A j \in 1..(i - 1) : s[j] # t
    ELSE 0

Contains(s, t) == \E i \in 1..Len(s) : s[i] = t

\* Position of the first token of s that is in the set ts, Len(s)+1 if none.
FirstOf(s, ts) ==
    IF \E i \in 1..Len(s) : s[i] \in ts
    THEN CHOOSE i \in 1..Len(s) : s[i] \in ts /\ \A j \in 1..(i - 1) : s[j] \notin ts
    ELSE Len(s) + 1

\* s[n:] in Python, n counted from 0.
From(s, n) == IF n >= Len(s) THEN << >> ELSE SubSeq(s, n + 1, Len(s))

\* s[:n] in Python.
Upto(s, n) == IF n >= Len(s) THEN s ELSE SubSeq(s, 1, n)

StartsWith(s, p) == Len(p) <= Len(s) /\ SubSeq(s, 1, Len(p)) = p

\* s.split(t, 1) when t is in s: the parts before and after the first t.
SplitFirst(s, t) ==
    LET i == IndexOf(s, t)
    IN  << SubSeq(s, 1, i - 1), SubSeq(s, i + 1, Len(s)) >>

\* s.split(t): always at least one part, parts may be empty.
RECURSIVE Split(_, _)
Split(s, t) ==
    IF ~Contains(s, t)
    THEN << s >>
    ELSE << SplitFirst(s, t)[1] >> \o Split(SplitFirst(s, t)[2], t)

\* t.join(parts)
RECURSIVE Join(_, _)
Join(parts, t) ==
    IF Len(parts) = 0 THEN << >>
    ELSE IF Len(parts) = 1 THEN parts[1]
    ELSE parts[1] \o << t >> \o Join(Tail(parts), t)

\* parse.unquote_plus: "+" becomes a blank, a percent escape its character.
UnquoteToken(t) ==
    CASE t = "+" -> " "
      [] t = "%2F" -> "/"
      [] t = "%40" -> "@"
      [] OTHER -> t

UnquotePlus(s) == [i \in 1..Len(s) |-> UnquoteToken(s[i])]

\* list(map(parse.unquote_plus, segments))
UnquoteAll(segs) == [i \in 1..Len(segs) |-> UnquotePlus(segs[i])]

\* ------------------------------------------------------------------------
\* urllib.parse as the resolver uses it
\* ------------------------------------------------------------------------

\* Tokens that cannot be part of a URL scheme (scheme_chars are letters,
\* digits, "+", "-" and "."; a scheme starts with a letter).
NonSchemeTokens == { ":", "//", "/", "@", "#", "=", "&", "%2F", "%40", " " }

\* Schemes for which urlunparse writes "//" even with an empty netloc.
UsesNetloc ==
    { << "http" >>, << "https" >>, << "file" >>, << "git" >>, << "git+", "ssh" >> }

ParseResult(scheme, netloc, path, fragment) ==
    [scheme |-> scheme, netloc |-> netloc, path |-> path, fragment |-> fragment]

\* parse.urlparse(url): scheme up to the first ":" when everything before
\* it is made of scheme characters; netloc after "//" up to the first "/"
\* or "#"; fragment after the first "#"; the rest is the path.
UrlParse(url) ==
    LET colon == IndexOf(url, ":")
        hasScheme == /\ colon > 1
                     /\ url[1] # ".git"
                     /\ \A j \in 1..(colon - 1) : url[j] \notin NonSchemeTokens
        scheme == IF hasScheme THEN SubSeq(url, 1, colon - 1) ELSE << >>
        rest == IF hasScheme THEN From(url, colon) ELSE url
        hasNetloc == Len(rest) > 0 /\ rest[1] = "//"
        afterSlashes == IF hasNetloc THEN Tail(rest) ELSE rest
        netEnd == FirstOf(afterSlashes, { "/", "#" })
        netloc == IF hasNetloc THEN SubSeq(afterSlashes, 1, netEnd - 1) ELSE << >>
        rest2 == IF hasNetloc THEN From(afterSlashes, netEnd - 1) ELSE rest
        hash == IndexOf(rest2, "#")
        path == IF hash > 0 THEN SubSeq(rest2, 1, hash - 1) ELSE rest2
        fragment == IF hash > 0 THEN From(rest2, hash) ELSE << >>
    IN  ParseResult(scheme, netloc, path, fragment)

\* parse.urlunparse of (scheme, netloc, path, "", "", fragment).
UrlUnparse(p) ==
    LET withNetloc == \/ p.netloc # << >>
                      \/ /\ p.scheme \in UsesNetloc
                         /\ ~(Len(p.path) > 0 /\ p.path[1] = "//")
        rooted == IF Len(p.path) > 0 /\ p.path[1] # "/" THEN << "/" >> \o p.path ELSE p.path
        url1 == IF withNetloc THEN << "//" >> \o p.netloc \o rooted ELSE p.path
        url2 == IF p.scheme # << >> THEN p.scheme \o << ":" >> \o url1 ELSE url1
    IN  IF p.fragment # << >> THEN url2 \o << "#" >> \o p.fragment ELSE url2

\* parse.parse_qs(fragment).get(key, []): the values of key, in order.  Pairs
\* are separated by "&"; a pair without "=" or with a blank value is dropped;
\* values are unquoted.
RECURSIVE QsValues(_, _)
QsValues(pairs, key) ==
    IF Len(pairs) = 0 THEN << >>
    ELSE LET pair == pairs[1]
             ok == /\ Contains(pair, "=")
                   /\ UnquotePlus(SplitFirst(pair, "=")[1]) = key
                   /\ SplitFirst(pair, "=")[2] # << >>
         IN  (IF ok THEN << UnquotePlus(SplitFirst(pair, "=")[2]) >> ELSE << >>)
                 \o QsValues(Tail(pairs), key)

ParseQsGet(fragment, key) == QsValues(Split(fragment, "&"), key)

\* ------------------------------------------------------------------------
\* Tag / path segmentation (the two copies in guess_git_repo_params)
\* ------------------------------------------------------------------------

\* The test of the for loops: repo_branch_tag == tag_relpath or
\* tag_relpath.startswith(repo_branch_tag + "/").
BranchMatches(repo_branch_tag, tag_relpath) ==
    \/ repo_branch_tag = tag_relpath
    \/ StartsWith(tag_relpath, repo_branch_tag \o << "/" >>)

\* Mutant of FirstMatch: the last matching branch of the listing is taken.
LastMatch(repo_branches_tags, tag_relpath) ==
    IF \E i \in 1..Len(repo_branches_tags) : BranchMatches(repo_branches_tags[i], tag_relpath)
    THEN CHOOSE i \in 1..Len(repo_branches_tags) :
            /\ BranchMatches(repo_branches_tags[i], tag_relpath)
            /\ \A j \in (i + 1)..Len(repo_branches_tags) :
                  ~BranchMatches(repo_branches_tags[j], tag_relpath)
    ELSE 0

\* Index of the branch at which the for loop breaks, 0 when it runs to its
\* else clause.
FirstMatch(repo_branches_tags, tag_relpath) ==
    IF \E i \in 1..Len(repo_branches_tags) : BranchMatches(repo_branches_tags[i], tag_relpath)
    THEN CHOOSE i \in 1..Len(repo_branches_tags) :
            /\ BranchMatches(repo_branches_tags[i], tag_relpath)
            /\ \A j \in 1..(i - 1) : ~BranchMatches(repo_branches_tags[j], tag_relpath)
    ELSE 0

\* Body of a matching iteration: << repoTag, repoRelPath >>.
MatchedSplit(repo_branch_tag, tag_relpath) ==
    LET rest == From(tag_relpath, Len(repo_branch_tag) + 1)
    IN  << repo_branch_tag,
           IF Len(tag_relpath) > Len(repo_branch_tag) /\ Len(rest) > 0 THEN rest ELSE None >>

\* github.com branch: wf_path_tag are the decoded segments after blob/tree.
SegmentGithub(wf_path_tag, repo_branches_tags) ==
    LET tag_relpath == Join(wf_path_tag, "/")
        m == FirstMatch(repo_branches_tags, tag_relpath)
    IN  IF m > 0
        THEN MatchedSplit(repo_branches_tags[m], tag_relpath)
        ELSE << wf_path_tag[1],
                IF Len(wf_path_tag) > 0 THEN Join(Tail(wf_path_tag), "/") ELSE None >>

\* raw.githubusercontent.com branch: wf_path is the whole decoded path split
\* at "/", of length at least 4; the segments from the fourth on are the tag
\* and the path.
SegmentRaw(wf_path, repo_branches_tags) ==
    LET tag_relpath == Join(From(wf_path, 3), "/")
        m == FirstMatch(repo_branches_tags, tag_relpath)
    IN  IF m > 0
        THEN MatchedSplit(repo_branches_tags[m], tag_relpath)
        ELSE << wf_path[4],
                IF Len(wf_path) > 4 THEN Join(From(wf_path, 4), "/") ELSE None >>

\* ------------------------------------------------------------------------
\* The remote collaborators
\* ------------------------------------------------------------------------

Ref(label, pointer) == [label |-> label, ref |-> pointer]

\* Answers of dulwich.porcelain.ls_remote: the refs of a repository, as the
\* ordered items of the returned dictionary.
RefsMain ==
    << Ref(HEAD_LABEL, "h1"), Ref(<< REFS_HEADS_PREFIX, "main" >>, "h1") >>

RefsTwo ==
    << Ref(HEAD_LABEL, "h1"),
       Ref(<< REFS_HEADS_PREFIX, "main" >>, "h2"),
       Ref(<< REFS_HEADS_PREFIX, "main", "/", "x" >>, "h1"),
       Ref(<< REFS_TAGS_PREFIX, "v1" >>, "h1") >>

RefsLongFirst ==
    << Ref(HEAD_LABEL, "h1"),
       Ref(<< REFS_HEADS_PREFIX, "main", "/", "x" >>, "h1"),
       Ref(<< REFS_HEADS_PREFIX, "main" >>, "h1") >>

RefsDetached ==
    << Ref(HEAD_LABEL, "h3"), Ref(<< REFS_HEADS_PREFIX, "main" >>, "h1") >>

RefsEmpty == << >>

RefsSnapshots == { RefsMain, RefsTwo, RefsLongFirst, RefsDetached, RefsEmpty }

HasHead(remote_refs_dict) ==
    \E i \in 1..Len(remote_refs_dict) : remote_refs_dict[i].label = HEAD_LABEL

\* remote_refs_dict[HEAD_LABEL]
HeadRef(remote_refs_dict) ==
    remote_refs_dict[CHOOSE i \in 1..Len(remote_refs_dict) :
                        remote_refs_dict[i].label = HEAD_LABEL].ref

IsHeadsLabel(item) == Len(item.label) > 0 /\ item.label[1] = REFS_HEADS_PREFIX

\* repo_branches after the loop over the items: the refs/heads/ labels
\* without the prefix, in the order of the listing.
RepoBranches(remote_refs_dict) ==
    LET heads == SelectSeq(remote_refs_dict, IsHeadsLabel)
    IN  [i \in 1..Len(heads) |-> Tail(heads[i].label)]

\* b_default_repo_tag after the loop: the first refs/heads/ label whose
\* pointer is the pointer of HEAD, None when there is none.
DefaultRepoTag(remote_refs_dict) ==
    LET heads == SelectSeq(remote_refs_dict, IsHeadsLabel)
        hits == { i \in 1..Len(heads) : heads[i].ref = HeadRef(remote_refs_dict) }
    IN  IF hits = {} THEN None
        ELSE Tail(heads[CHOOSE i \in hits : \A j \in hits : i <= j].label)

\* Answers to the HTTP HEAD request.  failed: urlopen raised.  A header
\* that is absent from the response makes headers.get_all return None,
\* written NoHeader here.
NoHeader == << << "<None>" >> >>

HeadResponse(failed, cookies, viewNames) ==
    [failed |-> failed, cookies |-> cookies, viewNames |-> viewNames]

HeadResponses ==
    { HeadResponse(TRUE, NoHeader, NoHeader),
      HeadResponse(FALSE, NoHeader, NoHeader),
      HeadResponse(FALSE, << << "_", "gitlab", "_session" >> >>, NoHeader),
      HeadResponse(FALSE, << << "logged_in" >>, << "domain", "=", "github.com" >> >>, NoHeader),
      HeadResponse(FALSE, << << "csrftoken" >> >>, << << "bitbucket", ".views" >> >>),
      HeadResponse(FALSE, << << "csrftoken" >> >>, NoHeader),
      HeadResponse(FALSE, NoHeader, << << "bitbucket", ".views" >> >>) }

\* list(filter(lambda c: word in c, values)) is not empty.
AnyContains(values, word) == \E i \in 1..Len(values) : Contains(values[i], word)

\* Mutant of ClassifyHead: a failure of the request or of the header
\* parsing leaves no type at all.
ClassifyHeadUnset(resp) ==
    IF resp.failed \/ resp.cookies = NoHeader THEN NoRepoType
    ELSE IF AnyContains(resp.cookies, "gitlab") THEN "GitLab"
    ELSE IF AnyContains(resp.cookies, "github.com") THEN "GitHub"
    ELSE IF resp.viewNames = NoHeader THEN NoRepoType
    ELSE IF AnyContains(resp.viewNames, "bitbucket") THEN "BitBucket"
    ELSE "Raw"

\* repo_type after the with block of find_git_repo_in_uri, the except
\* clause included: filter() over None raises TypeError, which is swallowed
\* like a failed request and leaves Raw.
ClassifyHead(resp) ==
    IF resp.failed \/ resp.cookies = NoHeader THEN "Raw"
    ELSE IF AnyContains(resp.cookies, "gitlab") THEN "GitLab"
    ELSE IF AnyContains(resp.cookies, "github.com") THEN "GitHub"
    ELSE IF resp.viewNames = NoHeader THEN "Raw"
    ELSE IF AnyContains(resp.viewNames, "bitbucket") THEN "BitBucket"
    ELSE "Raw"

\* ------------------------------------------------------------------------
\* Inputs
\* ------------------------------------------------------------------------

SeqsUpTo(S, n) == UNION { [1..k -> S] : k \in 0..n }

\* Segments that may follow owner/repo.
ExtraSegments == { << "blob" >>, << "main" >>, << "x" >> }

\* "/seg1/seg2..." for a sequence of segments, "" for none.
RECURSIVE Slashed(_)
Slashed(segs) ==
    IF Len(segs) = 0 THEN << >> ELSE << "/" >> \o segs[1] \o Slashed(Tail(segs))

ExtraPaths == { Slashed(e) : e \in SeqsUpTo(ExtraSegments, MaxExtra) }

RepoPaths == { << "/", "o", "/", "r", ".git" >>, << "/", "o", "/", "r" >> }

Schemes ==
    { << "git" >>, << "git+", "https" >>, << "git+", "http" >>, << "https" >>,
      << "ssh" >>, << "git+", "ssh" >>, << "file" >>, << "git+", "file" >> }

Netlocs ==
    { GITHUB_NETLOC, RAW_GITHUB_NETLOC, << "example.org" >>,
      << "git", "@", "github.com", ":", "o" >>, << >> }

TagSuffixes == { << >>, << "@", "t" >> }

Fragments ==
    { << >>,
      << "#", "subdirectory", "=", "s", "/", "d" >>,
      << "#", "egg", "=", "e" >> }

\* pip style references: scheme://netloc/o/r[.git][@t][#fragment]
PipUrls ==
    { sch \o << ":", "//" >> \o net \o path \o tag \o frag :
        sch \in Schemes, net \in Netlocs, path \in RepoPaths,
        tag \in TagSuffixes, frag \in Fragments }

\* Web references: https://host/o[/r[/seg...]]
WebUrls ==
    { << "https", ":", "//" >> \o net \o << "/", "o", "/", "r" >> \o extra :
        net \in { GITHUB_NETLOC, RAW_GITHUB_NETLOC, << "example.org" >> },
        extra \in ExtraPaths }
    \cup
    { << "https", ":", "//" >> \o net \o << "/", "o" >> :
        net \in { GITHUB_NETLOC, RAW_GITHUB_NETLOC, << "example.org" >> } }

\* github:o/r[/seg...]
GithubSchemeUrls ==
    { GITHUB_SCHEME \o << ":", "o", "/", "r" >> \o extra : extra \in ExtraPaths }

\* References without a scheme: host/o/r.git and the ssh shorthand.
SchemelessUrls ==
    { net \o path \o tag \o frag :
        net \in { GITHUB_NETLOC, << "git", "@", "github.com", ":", "o" >> },
        path \in { << "/", "o", "/", "r", ".git" >>, << "/", "r", ".git" >> },
        tag \in TagSuffixes, frag \in Fragments }

Urls == PipUrls \cup WebUrls \cup GithubSchemeUrls \cup SchemelessUrls

\* The inputs of the behaviours with two calls: the pip style references
\* 'git+X://...' and 'X://...' of the tests, and the shallow web references.
SchemesTwice ==
    { << "git+", "https" >>, << "https" >>, << "git+", "ssh" >>, << "ssh" >>,
      << "git+", "file" >>, << "file" >> }

PipUrlsTwice ==
    { sch \o << ":", "//" >> \o net \o << "/", "o", "/", "r", ".git" >> \o tag \o frag :
        sch \in SchemesTwice, net \in { GITHUB_NETLOC, << "example.org" >> },
        tag \in TagSuffixes,
        frag \in { << >>, << "#", "subdirectory", "=", "s", "/", "d" >> } }

Depth(url) == Len(SelectSeq(url, LAMBDA t : t = "/"))

UrlsTwice ==
    PipUrlsTwice
    \cup { url \in WebUrls \cup GithubSchemeUrls : Depth(url) <= 2 + MaxExtraTwice }
    \cup { GITHUB_NETLOC \o << "/", "o", "/", "r", ".git" >>,
           << "git", "@", "github.com", ":", "o", "/", "r", ".git" >> }

\* ------------------------------------------------------------------------
\* State
\* ------------------------------------------------------------------------

VARIABLES
    wf_url,             \* the argument of guess_git_repo_params (a string)
    fail_ok,            \* its fail_ok argument
    pc,                 \* "start", "probe", "head", "return", "done"
    repoURL, repoTag, repoRelPath, repoType,     \* locals of guess_git_repo_params
    found_params,       \* the tuple returned by find_git_repo_in_uri
    guess_exc,          \* the RepoGuessException raised by it, "" when none
    parsedInputURL, sp_path, pos,                \* locals of find_git_repo_in_uri
    the_remote_uri, b_default_repo_tag, repo_branches, longest_post_path, repo_type,
    lsCalls,            \* number of ls_remote calls issued
    lsAllNotGit,        \* every one of them was answered NotGitRepository
    headCalls,          \* number of HTTP HEAD requests issued
    tracked,            \* the remote's answers are being recorded (history on)
    remoteHeads,        \* the responses the remote may give to a HEAD request
    longestAnswer,      \* the longest prefix whose listing had a HEAD, and its refs
    shortestAnswer,     \* the shortest such prefix, and its refs
    lsMemo,             \* what ls_remote answered, by URL
    headMemo,           \* what the HEAD request answered, by URL
    again,              \* "" in the first call, else how the second call was derived
    first_result,       \* the outcome of the first call, once a second one started
    result              \* what guess_git_repo_params returned or raised

guessVars == << repoURL, repoTag, repoRelPath, repoType, found_params, guess_exc >>
findVars == << parsedInputURL, sp_path, pos, the_remote_uri, b_default_repo_tag,
               repo_branches, longest_post_path, repo_type >>
ioVars == << lsCalls, lsAllNotGit, headCalls >>
histVars == << longestAnswer, shortestAnswer >>
memoVars == << lsMemo, headMemo >>
callVars == << tracked, remoteHeads, again, first_result >>
vars == << wf_url, fail_ok, pc, guessVars, findVars, ioVars, histVars, memoVars,
           callVars, result >>

parsed_wf_url == UrlParse(wf_url)

\* The tuple find_git_repo_in_uri returns; ok is FALSE while there is none.
NoParams ==
    [ok |-> FALSE, repo_url |-> None, tag |-> None, repo_type |-> NoRepoType,
     post |-> << >>, branches |-> << >>]

FoundParams(url, tag, type, post, branches) ==
    [ok |-> TRUE, repo_url |-> url, tag |-> tag, repo_type |-> type,
     post |-> post, branches |-> branches]

\* Outcomes of guess_git_repo_params.
Pending ==
    [kind |-> "pending", repo_url |-> None, tag |-> None, rel_path |-> None,
     repo_type |-> NoRepoType, cause |-> ""]

RemoteRepo(url, tag, rel, type) ==
    [kind |-> "RemoteRepo", repo_url |-> url, tag |-> tag, rel_path |-> rel,
     repo_type |-> type, cause |-> ""]

ReturnNone == [Pending EXCEPT !.kind = "None"]

\* raise exc, chained from the RepoGuessException cause ("" when not chained)
Raise(exc, cause) == [Pending EXCEPT !.kind = exc, !.cause = cause]

\* No listing has answered yet.
NoAnswer == [pos |-> 0, refs |-> RefsEmpty]

\* The listing of the prefix sp_path[:at] answered with refs.
Answer(at, refs) == [pos |-> at, refs |-> refs]

\* What the remote answered to a request: the exception raised ("" when
\* none) or the refs listed / the response received.
LsAnswer(raised, remote_refs_dict) == [raised |-> raised, refs |-> remote_refs_dict]
HeadAnswer(resp) == [raised |-> "", resp |-> resp]

\* The remote does not change during a behaviour: a URL that was asked
\* before is answered as it was then.
\* What a remote may list and reply.  The remotes that are asked by two
\* calls are drawn from fewer kinds.
ListedRefs == IF tracked THEN { RefsMain, RefsTwo, RefsEmpty } ELSE RefsSnapshots
FewHeadResponses ==
    { HeadResponse(TRUE, NoHeader, NoHeader),
      HeadResponse(FALSE, << << "logged_in" >>, << "domain", "=", "github.com" >> >>,
                   NoHeader) }
HeadReplies == remoteHeads

NothingAsked == [uri \in {} |-> LsAnswer("", RefsEmpty)]

\* 'git+X://REST' and 'X://REST' name the same remote.
RemoteOf(uri) == IF Len(uri) > 0 /\ uri[1] = GIT_PROTO_PREFIX THEN Tail(uri) ELSE uri

SameRemote(memo, uri, answer) ==
    IF RemoteOf(uri) \in DOMAIN memo THEN memo[RemoteOf(uri)] = answer ELSE TRUE
Remember(memo, uri, answer) ==
    IF tracked THEN (RemoteOf(uri) :> answer) @@ memo ELSE memo

\* The state before guess_git_repo_params(url, failOk) runs; history says
\* whether the answers of the remote are recorded.
Start(urls, history, heads) ==
    /\ wf_url \in urls
    /\ fail_ok \in BOOLEAN
    /\ pc = "start"
    /\ repoURL = None /\ repoTag = None /\ repoRelPath = None /\ repoType = NoRepoType
    /\ found_params = NoParams
    /\ guess_exc = ""
    /\ parsedInputURL = ParseResult(<< >>, << >>, << >>, << >>)
    /\ sp_path = << >>
    /\ pos = 0
    /\ the_remote_uri = None /\ b_default_repo_tag = None
    /\ repo_branches = << >> /\ longest_post_path = << >>
    /\ repo_type = NoRepoType
    /\ lsCalls = 0 /\ lsAllNotGit = TRUE /\ headCalls = 0
    /\ tracked = history
    /\ remoteHeads = heads
    /\ longestAnswer = NoAnswer /\ shortestAnswer = NoAnswer
    /\ lsMemo = NothingAsked /\ headMemo = NothingAsked
    /\ again = "" /\ first_result = Pending
    /\ result = Pending

Init == Start(Urls, FALSE, HeadResponses)

\* ------------------------------------------------------------------------
\* guess_git_repo_params: dispatch on the shape of the URL
\* ------------------------------------------------------------------------

\* The if / elif chain of guess_git_repo_params.
Shape(p) ==
    IF p.scheme \in GetSchemeHandlers THEN "git"
    ELSE IF p.scheme = GITHUB_SCHEME THEN "github"
    ELSE IF p.netloc = GITHUB_NETLOC THEN "github.com"
    ELSE IF p.netloc = RAW_GITHUB_NETLOC THEN "raw"
    ELSE "other"

\* gitScheme: scheme.replace("git+", "") when the scheme starts with "git+".
GitScheme(scheme) ==
    IF Len(scheme) > 0 /\ scheme[1] = GIT_PROTO_PREFIX
    THEN SelectSeq(scheme, LAMBDA t : t # GIT_PROTO_PREFIX)
    ELSE scheme

\* gitPath and repoTag: the path split at its first "@", if it has one.
GitPath(path) == IF Contains(path, "@") THEN SplitFirst(path, "@")[1] ELSE path
GitTag(path) == IF Contains(path, "@") THEN SplitFirst(path, "@")[2] ELSE None

\* repoRelPath: the first subdirectory value of a non-empty fragment.
SubDirectory(fragment) ==
    IF Len(fragment) > 0 /\ Len(ParseQsGet(fragment, << "subdirectory" >>)) > 0
    THEN ParseQsGet(fragment, << "subdirectory" >>)[1]
    ELSE None

\* Mutant of RawHasRepo: the guard asks for one segment more.
RawHasRepoOffByOne(wf_path) == Len(wf_path) >= 4

\* The guard of the raw.githubusercontent.com branch: owner and repo exist.
RawHasRepo(wf_path) == Len(wf_path) >= 3

\* Mutant of AppendDotGit: the repository segment is left as it is.
AppendNothing(segs) == segs

\* repoGitPath[-1] += ".git"
AppendDotGit(segs) == [segs EXCEPT ![Len(segs)] = @ \o << ".git" >>]

\* Entry of find_git_repo_in_uri(remote_file), remote_file already parsed.
StartFind(remote_file) ==
    /\ parsedInputURL' = remote_file
    /\ sp_path' = Split(remote_file.path, "/")
    /\ pos' = Len(Split(remote_file.path, "/"))
    /\ the_remote_uri' = None
    /\ b_default_repo_tag' = None
    /\ repo_branches' = << >>
    /\ longest_post_path' = << >>
    /\ repo_type' = NoRepoType
    /\ pc' = "probe"
    /\ longestAnswer' = NoAnswer /\ shortestAnswer' = NoAnswer
    /\ UNCHANGED << wf_url, fail_ok, found_params, guess_exc, ioVars, memoVars,
                    callVars, result >>

\* scheme in GetSchemeHandlers()
GuessGitScheme ==
    /\ pc = "start"
    /\ Shape(parsed_wf_url) = "git"
    /\ LET url == UrlUnparse(ParseResult(GitScheme(parsed_wf_url.scheme),
                                         parsed_wf_url.netloc,
                                         GitPath(parsed_wf_url.path), << >>))
       IN  /\ repoURL' = url
           /\ repoTag' = GitTag(parsed_wf_url.path)
           /\ repoRelPath' = SubDirectory(parsed_wf_url.fragment)
           /\ repoType' = repoType
           /\ StartFind(UrlParse(url))

\* scheme == GITHUB_SCHEME
GuessGithubScheme ==
    /\ pc = "start"
    /\ Shape(parsed_wf_url) = "github"
    /\ LET gh_path_split == Split(parsed_wf_url.path, "/")
           gh_path == Join(Upto(gh_path_split, 2), "/")
           gh_post_path == UnquoteAll(From(gh_path_split, 2))
           url == UrlUnparse(ParseResult(<< "https" >>, GITHUB_NETLOC, gh_path, << >>))
       IN  /\ repoType' = "GitHub"
           /\ repoTag' = IF Len(gh_post_path) > 0 THEN gh_post_path[1] ELSE None
           /\ repoRelPath' = IF Len(gh_post_path) > 1
                             THEN Join(Tail(gh_post_path), "/") ELSE None
           /\ repoURL' = url
           /\ StartFind(UrlParse(url))

\* netloc == GITHUB_NETLOC: the probe gets the parsed URL itself.
GuessGithubNetloc ==
    /\ pc = "start"
    /\ Shape(parsed_wf_url) = "github.com"
    /\ UNCHANGED << repoURL, repoTag, repoRelPath, repoType >>
    /\ StartFind(parsed_wf_url)

\* netloc == "raw.githubusercontent.com" with at least /owner/repo
GuessRaw ==
    /\ pc = "start"
    /\ Shape(parsed_wf_url) = "raw"
    /\ LET wf_path == UnquoteAll(Split(parsed_wf_url.path, "/"))
           repoGitPath == AppendDotGit(Upto(wf_path, 3))
           url == UrlUnparse(ParseResult(<< "https" >>, GITHUB_NETLOC,
                                         Join(repoGitPath, "/"), << >>))
       IN  /\ RawHasRepo(wf_path)
           /\ repoURL' = url
           /\ UNCHANGED << repoTag, repoRelPath, repoType >>
           /\ StartFind(UrlParse(url))

\* any other URL: the probe gets the parsed URL itself.
GuessOther ==
    /\ pc = "start"
    /\ Shape(parsed_wf_url) = "other"
    /\ UNCHANGED << repoURL, repoTag, repoRelPath, repoType >>
    /\ StartFind(parsed_wf_url)

\* ------------------------------------------------------------------------
\* find_git_repo_in_uri: the loop over the path prefixes
\* ------------------------------------------------------------------------

\* pre_path of the current iteration.
PrePath ==
    IF Join(Upto(sp_path, pos), "/") = << >> THEN << "/" >>
    ELSE Join(Upto(sp_path, pos), "/")

\* Mutant of RemoteUriAnc: the path is not replaced by the prefix.
RemoteUriWhole == UrlUnparse(parsedInputURL)

\* remote_uri_anc: the input URL with its path replaced by pre_path.
RemoteUriAnc == UrlUnparse([parsedInputURL EXCEPT !.path = PrePath])

\* Mutant of AfterAnswer: the loop is left at the first answer.
BreakAfterAnswer(at) == 0

\* The value of pos after an iteration whose listing answered: the loop
\* has no break, so it is the next shorter prefix.
AfterAnswer(at) == at - 1

\* ls_remote raised NotGitRepository: continue with the next shorter prefix.
LsNotGitRepository ==
    /\ pc = "probe" /\ pos >= 1
    /\ SameRemote(lsMemo, RemoteUriAnc, LsAnswer("NotGitRepository", RefsEmpty))
    /\ lsMemo' = Remember(lsMemo, RemoteUriAnc, LsAnswer("NotGitRepository", RefsEmpty))
    /\ lsCalls' = lsCalls + 1
    /\ lsAllNotGit' = lsAllNotGit
    /\ pos' = pos - 1
    /\ UNCHANGED << wf_url, fail_ok, pc, guessVars, parsedInputURL, sp_path,
                    the_remote_uri, b_default_repo_tag, repo_branches,
                    longest_post_path, repo_type, headCalls, result,
                    histVars, headMemo, callVars >>

\* ls_remote raised anything else (timeout, protocol or I/O failure): no
\* except clause of either function catches it.
LsOtherFailure ==
    /\ pc = "probe" /\ pos >= 1
    /\ SameRemote(lsMemo, RemoteUriAnc, LsAnswer("failure", RefsEmpty))
    /\ lsMemo' = Remember(lsMemo, RemoteUriAnc, LsAnswer("failure", RefsEmpty))
    /\ lsCalls' = lsCalls + 1
    /\ pc' = "done"
    /\ lsAllNotGit' = FALSE
    /\ result' = Raise("OtherError", "")
    /\ UNCHANGED << wf_url, fail_ok, guessVars, findVars, headCalls,
                    histVars, headMemo, callVars >>

\* ls_remote answered with refs that have no HEAD entry:
\* remote_refs_dict[HEAD_LABEL] raises KeyError.
LsRefsNoHead ==
    /\ pc = "probe" /\ pos >= 1
    /\ \E remote_refs_dict \in ListedRefs :
          /\ ~HasHead(remote_refs_dict)
          /\ SameRemote(lsMemo, RemoteUriAnc, LsAnswer("", remote_refs_dict))
          /\ lsMemo' = Remember(lsMemo, RemoteUriAnc, LsAnswer("", remote_refs_dict))
          /\ the_remote_uri' = RemoteUriAnc
    /\ lsCalls' = lsCalls + 1
    /\ pc' = "done"
    /\ lsAllNotGit' = FALSE
    /\ result' = Raise("KeyError", "")
    /\ UNCHANGED << wf_url, fail_ok, guessVars, parsedInputURL, sp_path, pos,
                    b_default_repo_tag, repo_branches, longest_post_path, repo_type,
                    headCalls,
                    histVars, headMemo, callVars >>

\* Mutant of Unclassified: every answering prefix is classified anew.
AlwaysClassify(type) == TRUE

\* if repo_type is None: the provider has not been classified yet.
Unclassified(type) == type = NoRepoType

\* ls_remote answered: the prefix is a repository.  The loop goes on with
\* the shorter prefixes (it has no break); only the first answer is
\* followed by the HEAD request.
LsRefs ==
    /\ pc = "probe" /\ pos >= 1
    /\ \E remote_refs_dict \in ListedRefs :
          /\ HasHead(remote_refs_dict)
          /\ SameRemote(lsMemo, RemoteUriAnc, LsAnswer("", remote_refs_dict))
          /\ lsMemo' = Remember(lsMemo, RemoteUriAnc, LsAnswer("", remote_refs_dict))
          /\ repo_branches' = RepoBranches(remote_refs_dict)
          /\ b_default_repo_tag' = DefaultRepoTag(remote_refs_dict)
          /\ longestAnswer' = IF tracked /\ pos > longestAnswer.pos
                              THEN Answer(pos, remote_refs_dict) ELSE longestAnswer
          /\ shortestAnswer' =
                IF tracked /\ (shortestAnswer = NoAnswer \/ pos < shortestAnswer.pos)
                THEN Answer(pos, remote_refs_dict) ELSE shortestAnswer
    /\ the_remote_uri' = RemoteUriAnc
    /\ longest_post_path' = From(sp_path, pos)
    /\ lsCalls' = lsCalls + 1
    /\ lsAllNotGit' = FALSE
    /\ IF Unclassified(repo_type)
       THEN /\ repo_type' = "Raw"
            /\ pc' = "head"
            /\ pos' = pos
       ELSE /\ repo_type' = repo_type
            /\ pc' = pc
            /\ pos' = AfterAnswer(pos)
    /\ UNCHANGED << wf_url, fail_ok, guessVars, parsedInputURL, sp_path,
                    headCalls, headMemo, callVars, result >>

\* request.urlopen(Request(remote_uri_anc, method="HEAD")) and the
\* classification of its answer.
HeadRequest ==
    /\ pc = "head"
    /\ \E resp \in HeadReplies :
          /\ SameRemote(headMemo, RemoteUriAnc, HeadAnswer(resp))
          /\ headMemo' = Remember(headMemo, RemoteUriAnc, HeadAnswer(resp))
          /\ repo_type' = ClassifyHead(resp)
    /\ headCalls' = headCalls + 1
    /\ pos' = AfterAnswer(pos)
    /\ pc' = "probe"
    /\ UNCHANGED << wf_url, fail_ok, guessVars, parsedInputURL, sp_path,
                    the_remote_uri, b_default_repo_tag, repo_branches,
                    longest_post_path, lsCalls, lsAllNotGit, result,
                    histVars, lsMemo, callVars >>

\* Mutant of FindOutcome: the two checks after the loop in the other order.
FindOutcomeTagFirst(type, default_tag) ==
    IF default_tag = None THEN "notag"
    ELSE IF type = NoRepoType THEN "unable"
    ELSE ""

\* What the statements after the loop raise: "unable" for "Unable to
\* identify ... as a git repo", "notag" for "No tag was obtained while
\* getting default branch name", "" when the tuple is returned.
FindOutcome(type, default_tag) ==
    IF type = NoRepoType THEN "unable"
    ELSE IF default_tag = None THEN "notag"
    ELSE ""

\* End of the loop: raise RepoGuessException or return the tuple.
FindEnd ==
    /\ pc = "probe" /\ pos = 0
    /\ guess_exc' = FindOutcome(repo_type, b_default_repo_tag)
    /\ found_params' =
          IF FindOutcome(repo_type, b_default_repo_tag) = ""
          THEN FoundParams(the_remote_uri, b_default_repo_tag, repo_type,
                           longest_post_path, repo_branches)
          ELSE NoParams
    /\ pc' = "return"
    /\ UNCHANGED << wf_url, fail_ok, repoURL, repoTag, repoRelPath, repoType,
                    findVars, ioVars, result,
                    histVars, memoVars, callVars >>

\* ------------------------------------------------------------------------
\* guess_git_repo_params: after the probe
\* ------------------------------------------------------------------------

\* The handler of RepoGuessException raises FetcherException unless fail_ok.
Reraise(failOk) == ~failOk

\* Mutant of GithubTagAndPath: the segments after the root are split
\* whether or not they start with blob or tree.
GithubTagAndPathAlways(found) ==
    IF Len(found.post) > 0
    THEN SegmentGithub(UnquoteAll(found.post), found.branches)
    ELSE << None, None >>

\* << repoTag, repoRelPath >> of the github.com branch once the probe has
\* returned: split only after a literal blob or tree segment.
GithubTagAndPath(found) ==
    IF Len(found.post) > 1 /\ found.post[1] \in { << "blob" >>, << "tree" >> }
    THEN SegmentGithub(UnquoteAll(Tail(found.post)), found.branches)
    ELSE << None, None >>

\* << repoTag, repoRelPath >> of the raw.githubusercontent.com branch once
\* the probe has returned.
RawTagAndPath(path, found) ==
    IF Len(UnquoteAll(Split(path, "/"))) >= 4
    THEN SegmentRaw(UnquoteAll(Split(path, "/")), found.branches)
    ELSE << None, None >>

\* The statements after the try block: what is returned or raised, given
\* the locals at that point.
GuessTail(url, tag, rel, type, found, failOk) ==
    IF ~found.ok /\ ~failOk
    THEN Raise("FetcherException", "")
    ELSE IF url = None
    THEN ReturnNone
    ELSE RemoteRepo(url,
                    IF found.ok /\ tag = None THEN found.tag ELSE tag,
                    rel,
                    IF found.ok THEN found.repo_type ELSE type)

\* raw.githubusercontent.com without owner and repo: no probe at all.
GuessRawShort ==
    /\ pc = "start"
    /\ Shape(parsed_wf_url) = "raw"
    /\ ~RawHasRepo(UnquoteAll(Split(parsed_wf_url.path, "/")))
    /\ repoType' = "GitHub"
    /\ result' = GuessTail(repoURL, repoTag, repoRelPath, "GitHub", found_params, fail_ok)
    /\ pc' = "done"
    /\ UNCHANGED << wf_url, fail_ok, repoURL, repoTag, repoRelPath, found_params,
                    guess_exc, findVars, ioVars,
                    histVars, memoVars, callVars >>

\* except RepoGuessException: raise FetcherException from it.
GuessReraise ==
    /\ pc = "return"
    /\ guess_exc # ""
    /\ Reraise(fail_ok)
    /\ result' = Raise("FetcherException", guess_exc)
    /\ pc' = "done"
    /\ UNCHANGED << wf_url, fail_ok, guessVars, findVars, ioVars,
                    histVars, memoVars, callVars >>

\* The rest of the branch that called the probe (skipped when the probe
\* raised and the exception was swallowed), then the tail of the function.
GuessReturn ==
    /\ pc = "return"
    /\ ~(guess_exc # "" /\ Reraise(fail_ok))
    /\ LET shape == Shape(parsed_wf_url)
           split == IF ~found_params.ok THEN << repoTag, repoRelPath >>
                    ELSE IF shape = "github.com" THEN GithubTagAndPath(found_params)
                    ELSE IF shape = "raw"
                    THEN RawTagAndPath(parsed_wf_url.path, found_params)
                    ELSE << repoTag, repoRelPath >>
           url == IF found_params.ok /\ shape = "github.com"
                  THEN found_params.repo_url ELSE repoURL
           out == GuessTail(url, split[1], split[2], repoType, found_params, fail_ok)
       IN  /\ result' = out
           /\ repoURL' = url
           /\ repoTag' = IF out.kind = "RemoteRepo" THEN out.tag ELSE split[1]
           /\ repoRelPath' = split[2]
           /\ repoType' = IF found_params.ok THEN found_params.repo_type ELSE repoType
    /\ pc' = "done"
    /\ UNCHANGED << wf_url, fail_ok, found_params, guess_exc, findVars, ioVars,
                    histVars, memoVars, callVars >>

\* ------------------------------------------------------------------------
\* A second call against the same remote
\* ------------------------------------------------------------------------

\* guess_git_repo_params(url, fail_ok) is called once more, after the first
\* call has returned or raised; how tells which URL it is given.
CallAgain(url, how) ==
    /\ pc = "done" /\ again = "" /\ tracked
    /\ wf_url' = url
    /\ pc' = "start"
    /\ repoURL' = None /\ repoTag' = None /\ repoRelPath' = None
    /\ repoType' = NoRepoType
    /\ found_params' = NoParams
    /\ guess_exc' = ""
    /\ parsedInputURL' = ParseResult(<< >>, << >>, << >>, << >>)
    /\ sp_path' = << >>
    /\ pos' = 0
    /\ the_remote_uri' = None /\ b_default_repo_tag' = None
    /\ repo_branches' = << >> /\ longest_post_path' = << >>
    /\ repo_type' = NoRepoType
    /\ lsCalls' = 0 /\ lsAllNotGit' = TRUE /\ headCalls' = 0
    /\ longestAnswer' = NoAnswer /\ shortestAnswer' = NoAnswer
    /\ again' = how /\ first_result' = result
    /\ result' = Pending
    /\ UNCHANGED << fail_ok, tracked, remoteHeads, memoVars >>

\* The repo_url of the RemoteRepo just returned is resolved in turn.
ResolveRepoUrl ==
    /\ result.kind = "RemoteRepo"
    /\ CallAgain(result.repo_url, "repo_url")

\* After 'git+X://REST', the reference 'X://REST' is resolved.
ResolveWithoutGitPlus ==
    /\ wf_url[1] = GIT_PROTO_PREFIX
    /\ CallAgain(Tail(wf_url), "without git+")

\* ------------------------------------------------------------------------
\* Specification
\* ------------------------------------------------------------------------

Next ==
    \/ GuessGitScheme
    \/ GuessGithubScheme
    \/ GuessGithubNetloc
    \/ GuessRaw
    \/ GuessRawShort
    \/ GuessOther
    \/ LsNotGitRepository
    \/ LsOtherFailure
    \/ LsRefsNoHead
    \/ LsRefs
    \/ HeadRequest
    \/ FindEnd
    \/ GuessReraise
    \/ GuessReturn

Spec == Init /\ [][Next]_vars

\* Two calls against one remote, whose answers are recorded.
InitTwice == Start(UrlsTwice, TRUE, FewHeadResponses)

NextTwice ==
    \/ Next
    \/ ResolveRepoUrl
    \/ ResolveWithoutGitPlus

SpecTwice == InitTwice /\ [][NextTwice]_vars

\* One call against a recorded remote that may give every kind of HEAD
\* response.
InitOnce == Start(UrlsTwice, TRUE, HeadResponses)

SpecOnce == InitOnce /\ [][Next]_vars

\* ------------------------------------------------------------------------
\* Properties
\* ------------------------------------------------------------------------

\* The schemes the specification calls explicit git-addressed schemes.
ExplicitGitSchemes ==
    { << "git" >>, << "git+", "https" >>, << "git+", "http" >>, << "git+", "ssh" >>,
      << "ssh" >>, << "file" >>, << "git+", "file" >> }

HasDotGit(path) == Contains(path, ".git")

Done == pc = "done"

\* The remote behaved as a git remote does: every listing either answered
\* not-a-repository or returned refs with a HEAD entry.  C2, C3 and C6 are
\* stated for such runs only, so that no I/O failure is needed to refute
\* them.
RemoteWellBehaved == result.kind \notin { "OtherError", "KeyError" }

\* Every listing of the call answered not-a-repository, and there was one.
ProbeExhausted == lsCalls >= 1 /\ lsAllNotGit

\* C1: for a URL with an explicit git-addressed scheme and ".git" in its
\* path, the resolver issues no remote-refs listing and no HTTP HEAD request.
C1_ExplicitSchemeNoNetwork ==
    (parsed_wf_url.scheme \in ExplicitGitSchemes /\ HasDotGit(parsed_wf_url.path))
        => (lsCalls = 0 /\ headCalls = 0)

\* scheme://host/path.git@TAG#subdirectory=SUB with an explicit scheme
RoundTripUrl ==
    /\ parsed_wf_url.scheme \in ExplicitGitSchemes
    /\ parsed_wf_url.netloc # << >>
    /\ Contains(parsed_wf_url.path, "@")
    /\ SplitFirst(parsed_wf_url.path, "@")[1] # << >>
    /\ SplitFirst(parsed_wf_url.path, "@")[1][Len(SplitFirst(parsed_wf_url.path, "@")[1])] = ".git"
    /\ SplitFirst(parsed_wf_url.path, "@")[2] # << >>
    /\ StartsWith(parsed_wf_url.fragment, << "subdirectory", "=" >>)
    /\ Len(parsed_wf_url.fragment) > 2

\* C2: round trip. A URL scheme://host/path.git@TAG#subdirectory=SUB with an
\* explicit scheme resolves to a RemoteRepo with repo_url
\* scheme://host/path.git (without the git+ prefix), tag TAG and rel_path SUB.
C2_RoundTrip ==
    (Done /\ RoundTripUrl /\ RemoteWellBehaved) =>
        /\ result.kind = "RemoteRepo"
        /\ result.repo_url =
              SelectSeq(parsed_wf_url.scheme, LAMBDA t : t # "git+")
                  \o << ":", "//" >> \o parsed_wf_url.netloc
                  \o SplitFirst(parsed_wf_url.path, "@")[1]
        /\ result.tag = SplitFirst(parsed_wf_url.path, "@")[2]
        /\ result.rel_path = From(parsed_wf_url.fragment, 2)

\* ssh://user@host:owner/repo.git, with or without @TAG and #subdirectory=SUB
SshUrl ==
    /\ parsed_wf_url.scheme = << "ssh" >>
    /\ Contains(parsed_wf_url.netloc, "@")
    /\ Contains(parsed_wf_url.netloc, ":")
    /\ HasDotGit(parsed_wf_url.path)

\* C3: a URL ssh://user@host:owner/repo.git resolves to a RemoteRepo whose
\* repo_url is the netloc followed by the git path, and whose repo_type is Git.
C3_SshShorthand ==
    (Done /\ SshUrl /\ RemoteWellBehaved) =>
        /\ result.kind = "RemoteRepo"
        /\ result.repo_url =
              parsed_wf_url.netloc \o
                  (IF Contains(parsed_wf_url.path, "@")
                   THEN SplitFirst(parsed_wf_url.path, "@")[1]
                   ELSE parsed_wf_url.path)
        /\ result.repo_type = "Git"

\* The URLs that take the explicit-scheme path: scheme git, git+https or
\* git+http, and https, file or ssh URLs with ".git" in the path.
ExplicitSchemePath ==
    \/ parsed_wf_url.scheme \in { << "git" >>, << "git+", "https" >>, << "git+", "http" >> }
    \/ /\ parsed_wf_url.scheme \in { << "https" >>, << "file" >>, << "ssh" >> }
       /\ HasDotGit(parsed_wf_url.path)

\* C4: a RemoteRepo returned on the explicit-scheme path has repo_type Git
\* (stated for the default policy fail_ok = False, the one of the tests).
C4_ExplicitSchemeIsGit ==
    (Done /\ ~fail_ok /\ ExplicitSchemePath /\ result.kind = "RemoteRepo")
        => result.repo_type = "Git"

\* C5: for an explicit-scheme URL whose path has no "@", the returned
\* RemoteRepo has no tag; the default branch of the remote is not filled in.
C5_NoAtNoTag ==
    (/\ Done
     /\ parsed_wf_url.scheme \in ExplicitGitSchemes
     /\ ~Contains(parsed_wf_url.path, "@")
     /\ result.kind = "RemoteRepo")
        => result.tag = None

\* C6: a URL string with an empty scheme, resolved with fail_ok = False,
\* returns None and does not raise.
C6_NoSchemeIsNone ==
    (Done /\ parsed_wf_url.scheme = << >> /\ ~fail_ok /\ RemoteWellBehaved)
        => result.kind = "None"

\* C7 as stated: a URL with a non-empty scheme and no ".git" in its path
\* returns None and no remote-refs listing is issued for it (stated for
\* fail_ok = True, the policy under which None is the result of an
\* unresolved URL).
C7_FastRejectWithoutDotGit ==
    (parsed_wf_url.scheme # << >> /\ ~HasDotGit(parsed_wf_url.path) /\ fail_ok)
        => (lsCalls = 0 /\ (Done => result.kind = "None"))

\* raw.githubusercontent.com URL without /owner/repo
RawShortUrl ==
    /\ parsed_wf_url.scheme \notin GetSchemeHandlers \cup { GITHUB_SCHEME }
    /\ parsed_wf_url.netloc # GITHUB_NETLOC
    /\ parsed_wf_url.netloc = RAW_GITHUB_NETLOC
    /\ Len(Split(parsed_wf_url.path, "/")) < 3

\* C7 (amended): a URL with a non-empty scheme and no ".git" in its path is
\* not rejected up front: at least one remote-refs listing is issued before
\* the call ends.  The only such URLs rejected without a listing are the
\* raw.githubusercontent.com URLs with fewer than three path components:
\* None under fail_ok = True, FetcherException under fail_ok = False.
C7_NoDotGitIsProbed ==
    (Done /\ parsed_wf_url.scheme # << >> /\ ~HasDotGit(parsed_wf_url.path)) =>
        IF RawShortUrl
        THEN /\ lsCalls = 0
             /\ result = IF fail_ok THEN ReturnNone ELSE Raise("FetcherException", "")
        ELSE lsCalls >= 1

\* Witness of C7: a URL with a scheme and no ".git" was probed and resolved
\* to a RemoteRepo.
C7_Witness ==
    /\ Done
    /\ parsed_wf_url.scheme # << >>
    /\ ~HasDotGit(parsed_wf_url.path)
    /\ lsCalls >= 1
    /\ result.kind = "RemoteRepo"

C9_FailOkExhaustedIsNone ==
    (Done /\ fail_ok /\ ProbeExhausted) => result.kind = "None"

\* C10: when the repository root was found but no branch has the pointer of
\* HEAD, the "no tag was obtained" failure reaches the caller under both
\* policies.
C10_NoTagAlwaysSurfaced ==
    (Done /\ guess_exc = "notag")
        => (result.kind = "FetcherException" /\ result.cause = "notag")

\* The probe has returned its tuple to guess_git_repo_params.
ProbeReturned == pc \in {"return", "done"} /\ found_params.ok

\* The URL of the prefix sp_path[:at] of the probed URL.
PrefixUri(at) ==
    UrlUnparse([parsedInputURL EXCEPT
                   !.path = IF Join(Upto(sp_path, at), "/") = << >> THEN << "/" >>
                            ELSE Join(Upto(sp_path, at), "/")])

\* The tuple the probe returned is the one of the answer a: its prefix as
\* root, the segments after it, its branch list and its default branch.
ReturnedIsOf(a) ==
    /\ found_params.repo_url = PrefixUri(a.pos)
    /\ found_params.post = From(sp_path, a.pos)
    /\ found_params.branches = RepoBranches(a.refs)
    /\ found_params.tag = DefaultRepoTag(a.refs)

\* C11 (as stated): find_git_repo_in_uri returns the first, that is the
\* longest, answering prefix as repository root, with the remaining
\* segments, default branch and branch list of that prefix, also when a
\* shorter prefix answers too.
C11_LongestPrefixIsRoot == ProbeReturned => ReturnedIsOf(longestAnswer)

\* C11 (amended): the loop has no break, so what is returned is the root,
\* remaining segments, branch list and default branch of the SHORTEST
\* answering prefix (shortest_pre_path, longest_post_path).
C11_ShortestPrefixIsRoot == ProbeReturned => ReturnedIsOf(shortestAnswer)

\* Two prefixes answered with different refs and the call returned.
C11_Witness ==
    /\ pc = "done" /\ found_params.ok /\ result.kind = "RemoteRepo"
    /\ shortestAnswer.pos < longestAnswer.pos
    /\ shortestAnswer.refs # longestAnswer.refs

\* A URL of the generic branch in the words of the specification: its host
\* is neither github.com nor raw.githubusercontent.com and its scheme is
\* neither an explicit git scheme nor github (nor missing).
OtherHostUrl ==
    /\ parsed_wf_url.netloc \notin { GITHUB_NETLOC, RAW_GITHUB_NETLOC }
    /\ parsed_wf_url.scheme \notin ExplicitGitSchemes \cup { GITHUB_SCHEME, << >> }

\* C12: for a URL of another host, when some prefix answered the listing
\* with a resolvable HEAD, guess_git_repo_params returns a RemoteRepo (not
\* None) whose repo_url is the probed root and whose tag is the default
\* branch.
C12_OtherHostResolves ==
    (Done /\ OtherHostUrl /\ found_params.ok)
        => /\ result.kind = "RemoteRepo"
           /\ result.repo_url = found_params.repo_url
           /\ result.tag = found_params.tag

\* The call returned a RemoteRepo from a branch that applied the tag/path
\* segmentation: a github.com URL with segments after blob or tree, or a
\* raw.githubusercontent.com URL with segments after owner and repo.
SegmentationApplied ==
    /\ Done /\ result.kind = "RemoteRepo" /\ found_params.ok
    /\ \/ /\ Shape(parsed_wf_url) = "github.com"
          /\ Len(found_params.post) > 1
          /\ found_params.post[1] \in { << "blob" >>, << "tree" >> }
       \/ /\ Shape(parsed_wf_url) = "raw"
          /\ Len(Split(parsed_wf_url.path, "/")) >= 4

\* The decoded remaining segments of that branch.
RemainingSegments ==
    IF Shape(parsed_wf_url) = "github.com"
    THEN UnquoteAll(Tail(found_params.post))
    ELSE From(UnquoteAll(Split(parsed_wf_url.path, "/")), 3)

\* candidate: the remaining segments joined by "/".
Candidate == Join(RemainingSegments, "/")

\* The i-th known branch is the first one, in listing order, that equals
\* the candidate or is followed by "/" in it.
FirstListedMatch(i) ==
    /\ BranchMatches(found_params.branches[i], Candidate)
    /\ \A j \in 1..(i - 1) : ~BranchMatches(found_params.branches[j], Candidate)

\* What is left of the candidate after name and "/", null if nothing.
Remainder(name) ==
    IF Len(Candidate) > Len(name) + 1 THEN From(Candidate, Len(name) + 1) ELSE None

\* C13: when a known branch matches the candidate, the first matching
\* branch in listing order is the tag and rel_path is what follows it in
\* the candidate (null if nothing follows); a shorter branch listed earlier
\* wins over a longer one listed later.
C13_FirstListedMatchWins ==
    SegmentationApplied =>
        \A i \in 1..Len(found_params.branches) :
            FirstListedMatch(i) =>
                /\ result.tag = found_params.branches[i]
                /\ result.rel_path = Remainder(found_params.branches[i])

\* A shorter branch listed first wins over a longer match listed after it,
\* and something remains for rel_path.
C13_Witness ==
    /\ SegmentationApplied
    /\ \E i, j \in 1..Len(found_params.branches) :
          /\ i < j /\ FirstListedMatch(i)
          /\ BranchMatches(found_params.branches[j], Candidate)
          /\ Len(found_params.branches[j]) > Len(found_params.branches[i])
          /\ result.tag = found_params.branches[i]
          /\ result.rel_path # None

\* No known branch equals the candidate or is followed by "/" in it.
NoBranchMatches ==
    \A i \in 1..Len(found_params.branches) :
        ~BranchMatches(found_params.branches[i], Candidate)

\* C14: when no known branch matches, the tag is the first remaining
\* segment and rel_path the other segments joined by "/", null (not the
\* empty string) when there is only one segment, on github.com blob/tree
\* URLs and on raw.githubusercontent.com URLs alike.
C14_FallbackFirstSegment ==
    (SegmentationApplied /\ NoBranchMatches)
        => /\ result.tag = RemainingSegments[1]
           /\ result.rel_path = IF Len(RemainingSegments) > 1
                                 THEN Join(Tail(RemainingSegments), "/")
                                 ELSE None

\* C15: the repo_url of every returned RemoteRepo carries no '#fragment'
\* and no '@tag' suffix on its path, whichever branch produced it (checked
\* on the calls whose probe found a repository).
C15_RepoUrlIsBare ==
    (Done /\ result.kind = "RemoteRepo" /\ found_params.ok)
        => /\ ~Contains(result.repo_url, "#")
           /\ ~Contains(UrlParse(result.repo_url).path, "@")

\* C16: the repo_url of a returned RemoteRepo, resolved again against the
\* same remote, gives a RemoteRepo with the same repo_url and the default
\* branch of the repository as tag (checked with fail_ok = False, where a
\* RemoteRepo is only returned after a listing has succeeded).
C16_RepoUrlResolvesToItself ==
    (Done /\ again = "repo_url" /\ ~fail_ok)
        => /\ result.kind = "RemoteRepo"
           /\ result.repo_url = first_result.repo_url
           /\ found_params.ok
           /\ result.tag = found_params.tag

\* C17: for X in {https, ssh, file}, 'git+X://REST' and 'X://REST' resolve
\* to exactly the same RemoteRepo when the remote answers the same (checked
\* with fail_ok = False and no transport failure, from the calls on
\* 'git+X://REST' that returned one).
C17_GitPlusIsTransparent ==
    (/\ Done /\ again = "without git+" /\ ~fail_ok /\ RemoteWellBehaved
     /\ parsed_wf_url.scheme \in { << "https" >>, << "ssh" >>, << "file" >> }
     /\ first_result.kind = "RemoteRepo")
        => result = first_result

\* C18: every returned RemoteRepo, whatever fail_ok is, has a repo_type
\* that is a member of RepoType (never null), and it is Raw only if some
\* listing succeeded during the call.
C18_RepoTypeIsSet ==
    (Done /\ result.kind = "RemoteRepo")
        => /\ result.repo_type \in RepoType
           /\ result.repo_type = "Raw" => the_remote_uri # None

\* C19 (as stated): the prefixes are listed strictly from the longest to
\* the shortest, and once a listing has succeeded no listing is issued for
\* a shorter prefix.
C19_ShortCircuit ==
    [][lsCalls' = lsCalls + 1
          => (pos = Len(sp_path) - lsCalls /\ the_remote_uri = None)]_vars

\* C19 (amended): the prefixes are listed strictly from the longest to the
\* shortest, and the loop does not stop at a success: when the probe
\* returns or raises RepoGuessException, every prefix has been listed.
C19_EveryPrefixListed ==
    [][/\ lsCalls' = lsCalls + 1 => pos = Len(sp_path) - lsCalls
       /\ (pc = "probe" /\ pc' = "return") => lsCalls = Len(sp_path)]_vars

\* The full path answered the listing, and the shorter prefixes were
\* listed all the same.
C19_Witness ==
    /\ pc = "return" /\ found_params.ok
    /\ Len(sp_path) >= 3
    /\ found_params.repo_url = PrefixUri(Len(sp_path))
    /\ lsCalls = Len(sp_path)

\* C20: a listing that fails with a timeout or another I/O failure is
\* treated like a prefix that is not a repository, so the resolution never
\* ends with that failure.
C20_ListingFailureIsSkipped == Done => result.kind # "OtherError"

\* C21: when a prefix answered the listing but no refs/heads entry is what
\* HEAD points at, an empty listing without HEAD included, the probe fails
\* with the RepoGuessException "No tag was obtained ..." and with no other
\* kind of error.
C21_NoDefaultBranchIsNoTag ==
    (/\ pc \in {"return", "done"}
     /\ the_remote_uri # None /\ b_default_repo_tag = None
     /\ result.kind # "OtherError")
        => (guess_exc = "notag" /\ result.kind # "KeyError")

\* C22: one call of the probe issues at most one HTTP HEAD request, for the
\* first prefix that answered the listing, and once repo_type is set no
\* later answering prefix changes it.
C22_ClassifiedOnce ==
    [][/\ headCalls' = headCalls + 1
          => /\ headCalls = 0
             /\ longestAnswer.pos = pos /\ shortestAnswer.pos = pos
             /\ the_remote_uri = PrefixUri(pos)
       /\ (pc = "probe" /\ repo_type # NoRepoType) => repo_type' = repo_type]_vars

\* A shorter prefix answered after the classified one, and the provider
\* found at the first answer is still the type.
C22_Witness ==
    /\ pc = "return" /\ found_params.ok
    /\ headCalls = 1
    /\ shortestAnswer.pos < longestAnswer.pos
    /\ found_params.repo_type = "GitHub"

\* The provider the fingerprint rules name for a response: a cookie with
\* "gitlab", else a cookie with "github.com", else an X-View-Name with
\* "bitbucket", else Raw; a header that is absent has no values.
Fingerprint(resp) ==
    LET cookies == IF resp.cookies = NoHeader THEN << >> ELSE resp.cookies
        viewNames == IF resp.viewNames = NoHeader THEN << >> ELSE resp.viewNames
    IN  IF resp.failed THEN "Raw"
        ELSE IF AnyContains(cookies, "gitlab") THEN "GitLab"
        ELSE IF AnyContains(cookies, "github.com") THEN "GitHub"
        ELSE IF AnyContains(viewNames, "bitbucket") THEN "BitBucket"
        ELSE "Raw"

\* C23: the provider found from the HEAD response follows the fingerprint
\* rules; in particular an X-View-Name with "bitbucket" and no matching
\* cookie, no Set-Cookie header at all included, gives BitBucket.
C23_FingerprintRules ==
    \A uri \in DOMAIN headMemo :
        pc # "head" => repo_type = Fingerprint(headMemo[uri].resp)

\* The HEAD request, or the reading of its headers, failed.
HeadFailed(resp) ==
    resp.failed \/ resp.cookies = NoHeader \/ resp.viewNames = NoHeader

GithubComResolved ==
    /\ Done /\ Shape(parsed_wf_url) = "github.com"
    /\ found_params.ok /\ result.kind = "RemoteRepo"

\* The first segment after the repository root is blob or tree and at
\* least one more segment follows.
BlobOrTreeFollowed ==
    /\ Len(found_params.post) > 1
    /\ found_params.post[1] \in { << "blob" >>, << "tree" >> }

\* The decoded segments after the literal one, joined by "/".
AfterLiteral == Join(UnquoteAll(Tail(found_params.post)), "/")

RawPath == UnquoteAll(Split(parsed_wf_url.path, "/"))

\* The call was given a raw.githubusercontent.com URL with owner and repo
\* and returned a RemoteRepo.
RawResolved ==
    /\ Done /\ Shape(parsed_wf_url) = "raw" /\ Len(RawPath) >= 3
    /\ result.kind = "RemoteRepo"

\* C26: for a raw.githubusercontent.com URL /owner/repo/rest... the
\* returned repo_url is https://github.com/owner/repo.git whatever prefix
\* the probe matched; after a successful probe the tag and rel_path are the
\* segmentation of the segments after owner/repo against the probed
\* branches (first listed match, else first segment and the rest), and
\* with no such segments the tag is the default branch and rel_path null.
C26_RawGithubUrl ==
    RawResolved =>
        /\ result.repo_url = << "https", ":", "//" >> \o GITHUB_NETLOC \o << "/" >>
                                \o RawPath[2] \o << "/" >> \o RawPath[3] \o << ".git" >>
        /\ found_params.ok =>
              IF Len(RawPath) >= 4
              THEN /\ \A i \in 1..Len(found_params.branches) :
                          FirstListedMatch(i) =>
                              /\ result.tag = found_params.branches[i]
                              /\ result.rel_path = Remainder(found_params.branches[i])
                   /\ NoBranchMatches =>
                          /\ result.tag = RawPath[4]
                          /\ result.rel_path = IF Len(RawPath) > 4
                                                THEN Join(From(RawPath, 4), "/")
                                                ELSE None
              ELSE /\ result.tag = found_params.tag
                   /\ result.rel_path = None

\* A raw URL with segments after owner/repo was resolved although the
\* probe answered at a shorter prefix than owner/repo.git.
C26_Witness ==
    /\ RawResolved /\ found_params.ok /\ Len(RawPath) >= 5
    /\ found_params.repo_url # result.repo_url
    /\ result.rel_path # None

\* The decoded segments after owner/repo of a github: reference.
GhPostPath == UnquoteAll(From(Split(parsed_wf_url.path, "/"), 2))

\* The call was given a github: reference with segments after owner/repo,
\* its probe succeeded and it returned a RemoteRepo.
GithubSchemeResolved ==
    /\ Done /\ Shape(parsed_wf_url) = "github"
    /\ found_params.ok /\ result.kind = "RemoteRepo"
    /\ Len(GhPostPath) >= 1

\* The i-th probed branch is the first one, in listing order, that equals
\* the joined segments of the github: reference or is followed by "/" there.
GhFirstListedMatch(i) ==
    /\ BranchMatches(found_params.branches[i], Join(GhPostPath, "/"))
    /\ \A j \in 1..(i - 1) :
          ~BranchMatches(found_params.branches[j], Join(GhPostPath, "/"))

\* C27: for a github: reference, repo_url is https://github.com/ followed
\* by the first two path segments, and the remaining segments are split
\* against the probed branch list: the first listed branch that matches
\* them is the tag (with a known branch feature/x and the segments
\* feature/x/file.txt the tag is feature/x, not feature).
C27_GithubSchemeSegmented ==
    GithubSchemeResolved =>
        /\ result.repo_url = << "https", ":", "//" >> \o GITHUB_NETLOC \o << "/" >>
                                \o Join(Upto(Split(parsed_wf_url.path, "/"), 2), "/")
        /\ \A i \in 1..Len(found_params.branches) :
              GhFirstListedMatch(i) => result.tag = found_params.branches[i]

\* C28: a call with fail_ok=False never returns None: it returns a
\* RemoteRepo or it raises; None is a result under fail_ok=True only.
C28_NoneOnlyUnderFailOk ==
    (Done /\ ~fail_ok) => result.kind # "None"

\* C29: in the tuple find_git_repo_in_uri returns, repo_type classifies
\* the candidate root returned as repo_url: the HEAD request that set it
\* was sent to exactly that URL, whatever prefixes answered.
C29_TypeIsOfReturnedRoot ==
    ProbeReturned =>
        /\ RemoteOf(found_params.repo_url) \in DOMAIN headMemo
        /\ found_params.repo_type
              = ClassifyHead(headMemo[RemoteOf(found_params.repo_url)].resp)

\* C30: the two copies of the tag/path segmentation, the one of the
\* github.com blob/tree branch and the one of the raw.githubusercontent.com
\* branch, give the same << tag, rel_path >> for the same decoded remaining
\* segments (at least one) and the same branch list, whether a branch
\* matches or not.
C30_SegmentationCopiesAgree ==
    SegmentationApplied =>
        SegmentGithub(RemainingSegments, found_params.branches)
            = SegmentRaw(<< << >>, << "o" >>, << "r" >> >> \o RemainingSegments,
                         found_params.branches)

====
